---- MODULE Spec2Model ----
(***************************************************************************)
(* Execution-cost engine of fees-comparison-dex: the level walkers of      *)
(* src/test.py, src/lighter_debug.py, src/orderbook.py and                 *)
(* src/internal_analytic/lighter_debug.py, the per-size venue comparison   *)
(* and the cheapest-venue summary.                                         *)
(*                                                                         *)
(* Python floats are modelled as exact rationals <<n, d>> in lowest terms  *)
(* with d > 0; round(x, k) is modelled as decimal rounding, half to even.  *)
(***************************************************************************)
EXTENDS Integers, Sequences, FiniteSets, TLC

\* ------------------------------------------------------------------------
\* Rational arithmetic (the float operators the walkers use)
\* ------------------------------------------------------------------------

Abs(n) == IF n < 0 THEN -n ELSE n

RECURSIVE GCD(_, _)
GCD(a, b) == IF b = 0 THEN a ELSE GCD(b, a % b)

\* n/d in lowest terms with a positive denominator (d # 0)
Norm(n, d) ==
    LET s == IF d < 0 THEN -1 ELSE 1
        g == GCD(Abs(n), Abs(d))
    IN  <<(s * n) \div g, (s * d) \div g>>

R(n) == <<n, 1>>

\* sums and comparisons go through the common denominator, products through
\* cross-cancellation, so that intermediate values stay small
RAdd(x, y) ==
    LET g == GCD(x[2], y[2])
    IN  Norm(x[1] * (y[2] \div g) + y[1] * (x[2] \div g), (x[2] \div g) * y[2])

RSub(x, y) == RAdd(x, <<-y[1], y[2]>>)

RMul(x, y) ==
    LET g1 == GCD(Abs(x[1]), y[2])
        g2 == GCD(Abs(y[1]), x[2])
    IN  IF x[1] = 0 \/ y[1] = 0 THEN <<0, 1>>
        ELSE <<(x[1] \div g1) * (y[1] \div g2), (x[2] \div g2) * (y[2] \div g1)>>

\* x / y, y # 0 (the callers guard the divisor as the code does)
RDiv(x, y) ==
    IF y[1] < 0 THEN RMul(x, <<-y[2], -y[1]>>) ELSE RMul(x, <<y[2], y[1]>>)

RLe(x, y) ==
    LET g == GCD(x[2], y[2])
    IN  x[1] * (y[2] \div g) <= y[1] * (x[2] \div g)

RLt(x, y) == ~RLe(y, x)

RMin(x, y) == IF RLe(x, y) THEN x ELSE y

RAbs(x) == <<Abs(x[1]), x[2]>>

\* round(x, k): k decimal digits by long division, the last digit rounded
\* half to even.  acc is the integer built so far, r the running remainder.
RECURSIVE RoundDigits(_, _, _, _)
RoundDigits(acc, r, d, k) ==
    IF k = 0
    THEN IF 2 * r < d THEN acc
         ELSE IF 2 * r > d THEN acc + 1
         ELSE IF acc % 2 = 0 THEN acc ELSE acc + 1
    ELSE RoundDigits(acc * 10 + ((r * 10) \div d), (r * 10) % d, d, k - 1)

RECURSIVE Pow10(_)
Pow10(k) == IF k = 0 THEN 1 ELSE 10 * Pow10(k - 1)

RoundTo(x, k) == Norm(RoundDigits(x[1] \div x[2], x[1] % x[2], x[2], k), Pow10(k))

Round2(x) == RoundTo(x, 2)

Round6(x) == RoundTo(x, 6)

\* Python's None, and the test for it
None == [none |-> TRUE]

IsNone(x) == x = None

\* ------------------------------------------------------------------------
\* Bounds and input domains
\* ------------------------------------------------------------------------

\* longest walked book side
MaxLevels == 2

AskPrices == {100, 101}

AskQtys == {5, 10}

BidPrices == {98, 99}

BidQtys == {3, 5}

Level(p, q) == [price |-> R(p), qty |-> R(q)]

AskLevels == {Level(p, q) : p \in AskPrices, q \in AskQtys}

BidLevels == {Level(p, q) : p \in BidPrices, q \in BidQtys}

SeqsUpTo(S, n) == UNION {[1..k -> S] : k \in 1..n}

\* requested notionals: zero and the sizes of the documented scenarios
Sizes == {R(0), R(600), R(1000)}

Sides == {"buy", "sell"}

\* ------------------------------------------------------------------------
\* src/test.py: calculate_slippage
\* ------------------------------------------------------------------------

\* mutant: an unstable sort, x goes in front of the levels of its price
RECURSIVE InsertAscBeforeEqual(_, _)
InsertAscBeforeEqual(x, s) ==
    IF s = <<>> THEN <<x>>
    ELSE IF RLe(x.price, Head(s).price) THEN <<x>> \o s
    ELSE <<Head(s)>> \o InsertAscBeforeEqual(x, Tail(s))

\* sorted(..., key=price): stable insertion of x behind every level <= x
RECURSIVE InsertAsc(_, _)
InsertAsc(x, s) ==
    IF s = <<>> THEN <<x>>
    ELSE IF RLt(x.price, Head(s).price) THEN <<x>> \o s
    ELSE <<Head(s)>> \o InsertAsc(x, Tail(s))

RECURSIVE SortAsc(_)
SortAsc(s) ==
    IF s = <<>> THEN <<>>
    ELSE InsertAsc(s[Len(s)], SortAsc(SubSeq(s, 1, Len(s) - 1)))

\* sorted(..., key=price, reverse=True): stable, behind every level >= x
RECURSIVE InsertDesc(_, _)
InsertDesc(x, s) ==
    IF s = <<>> THEN <<x>>
    ELSE IF RLt(Head(s).price, x.price) THEN <<x>> \o s
    ELSE <<Head(s)>> \o InsertDesc(x, Tail(s))

RECURSIVE SortDesc(_)
SortDesc(s) ==
    IF s = <<>> THEN <<>>
    ELSE InsertDesc(s[Len(s)], SortDesc(SubSeq(s, 1, Len(s) - 1)))

RECURSIVE MaxPrice(_)
MaxPrice(s) ==
    IF Len(s) = 1 THEN s[1].price
    ELSE LET m == MaxPrice(Tail(s))
         IN  IF RLt(m, s[1].price) THEN s[1].price ELSE m

RECURSIVE MinPrice(_)
MinPrice(s) ==
    IF Len(s) = 1 THEN s[1].price
    ELSE LET m == MinPrice(Tail(s))
         IN  IF RLt(s[1].price, m) THEN s[1].price ELSE m

\* the list calculate_slippage iterates
TestLevels(orderbook, side) ==
    IF side = "buy" THEN SortAsc(orderbook.asks) ELSE SortDesc(orderbook.bids)

TestMid(orderbook) ==
    RDiv(RAdd(MaxPrice(orderbook.bids), MinPrice(orderbook.asks)), R(2))

TestBestPrice(orderbook, side) ==
    IF side = "buy" THEN MinPrice(orderbook.asks) ELSE MaxPrice(orderbook.bids)

\* the accumulators before the loop
TestStart(orderbook, size_usd, side) ==
    [remaining   |-> size_usd,
     total_qty   |-> R(0),
     total_cost  |-> R(0),
     levels_used |-> 0,
     worst_price |-> TestBestPrice(orderbook, side),
     stop        |-> FALSE]

\* mutant: the completing level is taken whole
TestBuyFillWholeLevel(st, level) ==
    LET value_at_level == RMul(level.qty, level.price)
    IN  IF RLe(st.remaining, value_at_level)
        THEN [st EXCEPT !.total_qty  = RAdd(@, level.qty),
                        !.total_cost = RAdd(@, st.remaining),
                        !.remaining  = R(0),
                        !.stop       = TRUE]
        ELSE [st EXCEPT !.total_qty  = RAdd(@, level.qty),
                        !.total_cost = RAdd(@, value_at_level),
                        !.remaining  = RSub(@, value_at_level)]

\* buy branch of the loop body: spend USD
TestBuyFill(st, level) ==
    LET value_at_level == RMul(level.qty, level.price)
    IN  IF RLe(st.remaining, value_at_level)
        THEN [st EXCEPT !.total_qty  = RAdd(@, RDiv(st.remaining, level.price)),
                        !.total_cost = RAdd(@, st.remaining),
                        !.remaining  = R(0),
                        !.stop       = TRUE]
        ELSE [st EXCEPT !.total_qty  = RAdd(@, level.qty),
                        !.total_cost = RAdd(@, value_at_level),
                        !.remaining  = RSub(@, value_at_level)]

\* mutant: the USD size is never converted to coins
TestSellFillNoConversion(st, level, size_usd, mid_price) ==
    LET rem == st.remaining
    IN  IF RLe(rem, level.qty)
        THEN [st EXCEPT !.total_qty  = RAdd(@, rem),
                        !.total_cost = RAdd(@, RMul(rem, level.price)),
                        !.remaining  = R(0),
                        !.stop       = TRUE]
        ELSE [st EXCEPT !.total_qty  = RAdd(@, level.qty),
                        !.total_cost = RAdd(@, RMul(level.qty, level.price)),
                        !.remaining  = RSub(rem, level.qty)]

\* sell branch of the loop body: on the first level used the USD size is
\* converted to coins at the mid price, then coins are consumed
TestSellFill(st, level, size_usd, mid_price) ==
    LET rem == IF st.levels_used = 1 THEN RDiv(size_usd, mid_price)
               ELSE st.remaining
    IN  IF RLe(rem, level.qty)
        THEN [st EXCEPT !.total_qty  = RAdd(@, rem),
                        !.total_cost = RAdd(@, RMul(rem, level.price)),
                        !.remaining  = R(0),
                        !.stop       = TRUE]
        ELSE [st EXCEPT !.total_qty  = RAdd(@, level.qty),
                        !.total_cost = RAdd(@, RMul(level.qty, level.price)),
                        !.remaining  = RSub(rem, level.qty)]

\* one iteration of "for level in levels"
TestStep(st, level, side, size_usd, mid_price) ==
    IF RLe(st.remaining, R(0)) THEN [st EXCEPT !.stop = TRUE]
    ELSE IF RLe(level.qty, R(0)) \/ RLe(level.price, R(0)) THEN st
    ELSE LET used == [st EXCEPT !.levels_used = @ + 1,
                                !.worst_price = level.price]
         IN  IF side = "buy" THEN TestBuyFill(used, level)
             ELSE TestSellFill(used, level, size_usd, mid_price)

\* the levels the loop does not skip: "if qty_available <= 0 or price <= 0:
\* continue"
TestUsedLevels(levels) ==
    SelectSeq(levels, LAMBDA l : ~(RLe(l.qty, R(0)) \/ RLe(l.price, R(0))))

\* "Allow tiny rounding errors"
TestTolerance == Norm(1, 10000)

\* mutant: the unfilled share is reported
TestFilledPctUnfilled(st, size_usd, side) ==
    RMul(RDiv(st.remaining, size_usd), R(100))

TestFilledPct(st, size_usd, side) ==
    IF side = "buy"
    THEN RMul(RDiv(RSub(size_usd, st.remaining), size_usd), R(100))
    ELSE RMul(RDiv(st.total_cost, size_usd), R(100))

TestSlippageBps(avg_price, mid_price, side) ==
    LET slippage == IF side = "buy"
                    THEN RMul(RDiv(RSub(avg_price, mid_price), mid_price), R(100))
                    ELSE RMul(RDiv(RSub(mid_price, avg_price), mid_price), R(100))
    IN  RMul(slippage, R(100))

\* the value returned after the loop
TestReturn(st, orderbook, size_usd, side) ==
    LET mid_price  == TestMid(orderbook)
        best_price == TestBestPrice(orderbook, side)
    IN  IF RLt(TestTolerance, st.remaining)
        THEN [filled         |-> FALSE,
              slippage_bps   |-> None,
              filled_percent |-> Round2(TestFilledPct(st, size_usd, side))]
        ELSE IF st.total_qty = R(0) THEN None
        ELSE LET avg_price == RDiv(st.total_cost, st.total_qty)
             IN  [filled       |-> TRUE,
                  slippage_bps |-> Round2(TestSlippageBps(avg_price, mid_price, side)),
                  effective_spread_bps |->
                      Round2(RMul(RAbs(RDiv(RSub(st.worst_price, best_price),
                                            best_price)), R(10000))),
                  levels_used  |-> st.levels_used,
                  avg_price    |-> Round6(avg_price),
                  best_price   |-> Round6(best_price),
                  worst_price  |-> Round6(st.worst_price)]

RECURSIVE TestWalk(_, _, _, _, _)
TestWalk(st, levels, side, size_usd, mid_price) ==
    IF levels = <<>> \/ st.stop THEN st
    ELSE TestWalk(TestStep(st, Head(levels), side, size_usd, mid_price),
                  Tail(levels), side, size_usd, mid_price)

\* calculate_slippage(orderbook, size_usd, side) as a function of its arguments
calculate_slippage(orderbook, size_usd, side) ==
    IF TestLevels(orderbook, side) = <<>> THEN None
    ELSE TestReturn(TestWalk(TestStart(orderbook, size_usd, side),
                             TestLevels(orderbook, side), side, size_usd,
                             TestMid(orderbook)),
                    orderbook, size_usd, side)

\* ------------------------------------------------------------------------
\* src/lighter_debug.py: LighterDebugger.calculate_slippage, analyze_execution
\* ------------------------------------------------------------------------

LighterStart(order_size_usd) ==
    [remaining   |-> order_size_usd,
     total_qty   |-> R(0),
     total_cost  |-> R(0),
     levels_used |-> 0,
     worst_price |-> R(0),
     stop        |-> FALSE]

\* mutant: the completing level is charged with its whole value
LighterStepWholeValue(st, level) ==
    LET value == RMul(level.price, level.qty)
        cnt   == [st EXCEPT !.levels_used = @ + 1]
    IN  IF RLe(st.remaining, value)
        THEN [cnt EXCEPT !.total_qty  = RAdd(@, RDiv(st.remaining, level.price)),
                         !.total_cost = RAdd(@, value),
                         !.remaining  = R(0),
                         !.stop       = TRUE]
        ELSE [cnt EXCEPT !.total_qty  = RAdd(@, level.qty),
                         !.total_cost = RAdd(@, value),
                         !.remaining  = RSub(@, value)]

\* one iteration of "for level in levels"; unfilled is kept in remaining,
\* filled_levels in levels_used.  The side argument is only printed.
LighterStep(st, level) ==
    LET value == RMul(level.price, level.qty)
        cnt   == [st EXCEPT !.levels_used = @ + 1]
    IN  IF RLe(st.remaining, value)
        THEN [cnt EXCEPT !.total_qty  = RAdd(@, RDiv(st.remaining, level.price)),
                         !.total_cost = RAdd(@, st.remaining),
                         !.remaining  = R(0),
                         !.stop       = TRUE]
        ELSE [cnt EXCEPT !.total_qty  = RAdd(@, level.qty),
                         !.total_cost = RAdd(@, value),
                         !.remaining  = RSub(@, value)]

LighterTolerance == Norm(1, 10000)

LighterReturn(st) ==
    [filled        |-> RLe(st.remaining, LighterTolerance),
     remaining_usd |-> st.remaining,
     avg_price     |-> IF RLt(R(0), st.total_qty)
                       THEN RDiv(st.total_cost, st.total_qty) ELSE R(0),
     levels_used   |-> st.levels_used,
     total_qty     |-> st.total_qty,
     total_cost    |-> st.total_cost]

\* the loop of LighterDebugger.calculate_slippage over the levels it is given
RECURSIVE LighterWalk(_, _)
LighterWalk(st, levels) ==
    IF levels = <<>> \/ st.stop THEN st
    ELSE LighterWalk(LighterStep(st, Head(levels)), Tail(levels))

\* LighterDebugger.calculate_slippage(levels, order_size_usd, side) as a
\* function of its arguments
LighterCalculateSlippage(levels, order_size_usd) ==
    LighterReturn(LighterWalk(LighterStart(order_size_usd), levels))

\* analyze_execution: mid price from the first bid and the first ask
LighterMid(orderbook) ==
    RDiv(RAdd(orderbook.bids[1].price, orderbook.asks[1].price), R(2))

\* analyze_execution: the levels handed to calculate_slippage
LighterLevels(orderbook, side) ==
    IF side = "buy" THEN orderbook.asks ELSE orderbook.bids

\* analyze_execution: "Filled: $.. (pct%)" of a partial fill
LighterPct(res, order_size_usd) ==
    RMul(RDiv(RSub(order_size_usd, res.remaining_usd), order_size_usd), R(100))

\* analyze_execution: slippage of a side, 0.0 when nothing was filled
LighterSlippage(res, order_size_usd, mid_price) ==
    IF res.filled \/ RLt(R(0), RSub(order_size_usd, res.remaining_usd))
    THEN RMul(RAbs(RDiv(RSub(res.avg_price, mid_price), mid_price)), R(10000))
    ELSE R(0)

\* ------------------------------------------------------------------------
\* src/orderbook.py: the buy and sell loops of calculate_multi_dex_comparison
\* ------------------------------------------------------------------------

OBMid(orderbook) ==
    RDiv(RAdd(orderbook.bids[1].price, orderbook.asks[1].price), R(2))

OBLevels(orderbook, side) ==
    IF side = "buy" THEN orderbook.asks ELSE orderbook.bids

\* remaining_dollars (buy) or remaining_coins (sell) before the loop
OBStart(dollar_size, side, mid_price) ==
    [remaining   |-> IF side = "buy" THEN dollar_size
                     ELSE RDiv(dollar_size, mid_price),
     total_qty   |-> R(0),
     total_cost  |-> R(0),
     levels_used |-> 0,
     worst_price |-> R(0),
     stop        |-> FALSE]

\* buy loop body: total_coins is kept in total_qty
OBBuyStep(st, level) ==
    IF RLe(st.remaining, R(0)) THEN [st EXCEPT !.stop = TRUE]
    ELSE LET max_coins_at_level == RDiv(st.remaining, level.price)
             filled_coins       == RMin(max_coins_at_level, level.qty)
             cost               == RMul(filled_coins, level.price)
         IN  [st EXCEPT !.total_qty   = RAdd(@, filled_coins),
                        !.total_cost  = RAdd(@, cost),
                        !.remaining   = RSub(@, cost),
                        !.levels_used = @ + 1]

\* sell loop body: total_value is kept in total_cost
OBSellStep(st, level) ==
    IF RLe(st.remaining, R(0)) THEN [st EXCEPT !.stop = TRUE]
    ELSE LET filled_coins == RMin(st.remaining, level.qty)
             value        == RMul(filled_coins, level.price)
         IN  [st EXCEPT !.total_qty   = RAdd(@, filled_coins),
                        !.total_cost  = RAdd(@, value),
                        !.remaining   = RSub(@, filled_coins),
                        !.levels_used = @ + 1]

OBStep(st, level, side) ==
    IF side = "buy" THEN OBBuyStep(st, level) ELSE OBSellStep(st, level)

OBBuyTolerance == Norm(1, 100)

OBSellTolerance == Norm(1, 1000000)

\* TRUE when the size is reported as "INSUFFICIENT LIQUIDITY"
OBInsufficient(st, side) ==
    IF side = "buy" THEN RLt(OBBuyTolerance, st.remaining)
    ELSE RLt(OBSellTolerance, st.remaining)

\* ------------------------------------------------------------------------
\* src/internal_analytic/lighter_debug.py: calculate_execution_cost
\* ------------------------------------------------------------------------

ExecStart(order_size_usd) ==
    [remaining   |-> order_size_usd,
     total_qty   |-> R(0),
     total_cost  |-> R(0),
     levels_used |-> 0,
     worst_price |-> R(0),
     stop        |-> FALSE]

\* mutant: the fill is not capped by what the remaining USD can buy
ExecStepWholeLevel(st, level) ==
    IF RLe(st.remaining, R(0)) THEN [st EXCEPT !.stop = TRUE]
    ELSE IF RLe(level.price, R(0)) \/ RLe(level.qty, R(0)) THEN st
    ELSE LET filled == level.qty
             cost   == RMul(filled, level.price)
         IN  [st EXCEPT !.total_qty   = RAdd(@, filled),
                        !.total_cost  = RAdd(@, cost),
                        !.remaining   = RSub(@, cost),
                        !.levels_used = @ + 1]

\* loop body: total_coins is kept in total_qty, remaining_usd in remaining
ExecStep(st, level) ==
    IF RLe(st.remaining, R(0)) THEN [st EXCEPT !.stop = TRUE]
    ELSE IF RLe(level.price, R(0)) \/ RLe(level.qty, R(0)) THEN st
    ELSE LET max_coins == RDiv(st.remaining, level.price)
             filled    == RMin(max_coins, level.qty)
             cost      == RMul(filled, level.price)
         IN  [st EXCEPT !.total_qty   = RAdd(@, filled),
                        !.total_cost  = RAdd(@, cost),
                        !.remaining   = RSub(@, cost),
                        !.levels_used = @ + 1]

\* "More than $1 remaining = insufficient liquidity"
ExecTolerance == R(1)

ExecReturn(st, mid_price, fee_bps) ==
    IF RLt(ExecTolerance, st.remaining) THEN None
    ELSE IF st.total_qty = R(0) THEN None
    ELSE LET avg_price    == RDiv(st.total_cost, st.total_qty)
             slippage_bps == RMul(RDiv(RSub(avg_price, mid_price), mid_price),
                                  R(10000))
         IN  [avg_price      |-> avg_price,
              slippage_bps   |-> slippage_bps,
              fee_bps        |-> fee_bps,
              fee_dollars    |-> RMul(st.total_cost, RDiv(fee_bps, R(10000))),
              total_cost_bps |-> RAdd(slippage_bps, fee_bps)]

RECURSIVE ExecWalk(_, _)
ExecWalk(st, levels) ==
    IF levels = <<>> \/ st.stop THEN st
    ELSE ExecWalk(ExecStep(st, Head(levels)), Tail(levels))

\* orderbook['mid_price'] as HyperliquidClient / LighterClient set it: from
\* the first bid and the first ask
ExecMid(orderbook) ==
    RDiv(RAdd(orderbook.bids[1].price, orderbook.asks[1].price), R(2))

\* calculate_execution_cost(orderbook, order_size_usd, fee_bps)
calculate_execution_cost(orderbook, order_size_usd, fee_bps) ==
    IF IsNone(orderbook) THEN None
    ELSE ExecReturn(ExecWalk(ExecStart(order_size_usd), orderbook.asks),
                    ExecMid(orderbook), fee_bps)

\* ------------------------------------------------------------------------
\* Configuration tables of src/test.py and src/internal_analytic/lighter_debug.py
\* ------------------------------------------------------------------------

Assets == {"AAPL", "GOLD", "EURUSD"}

\* ALL_ASSETS[asset]['cat'] / ASSET_MAPPING[asset]['category']
Category(asset) ==
    IF asset = "GOLD" THEN "gold"
    ELSE IF asset = "EURUSD" THEN "forex_major"
    ELSE "equities"

\* ALL_ASSETS[asset]['av'] / ASSET_MAPPING[asset]['avantis']
AvantisSymbol(asset) == IF asset = "GOLD" THEN "XAUUSD" ELSE asset

AVANTIS_ZERO_SLIPPAGE ==
    {"XAUUSD", "USDJPY", "GBPUSD", "EURUSD", "QQQUSD", "SPYUSD"}

\* taker fee of a book venue in bps: 4.5 / 0 in test.py, 3.5 / 0 in the
\* analytic script
TakerFee(prog, dex) ==
    IF dex = "Lighter" THEN R(0)
    ELSE IF prog = "test" THEN Norm(9, 2)
    ELSE Norm(7, 2)

\* OstiumClient.get_data: fee by category, constant estimated spread
OstiumData(category) ==
    [spread_bps      |-> R(3),
     opening_fee_bps |-> IF category \in {"equities", "indices"} THEN R(5)
                         ELSE IF category \in {"forex_major", "forex_minor"}
                              THEN R(3)
                         ELSE IF category = "gold" THEN R(3)
                         ELSE IF category = "silver" THEN R(15)
                         ELSE R(5),
     closing_fee_bps |-> R(0),
     oracle_fee      |-> Norm(1, 10)]

\* FEES['avantis'][category]['opening']
AvantisOpening(category) ==
    IF category = "forex_major" THEN R(3)
    ELSE IF category = "silver" THEN Norm(127, 20)
    ELSE R(6)

\* mutant: the fixed spread is charged on every instrument
AvantisSpreadAlways(is_zero_slip) == R(2)

\* av_spread = 0 if is_zero_slip else 2.0
AvantisSpread(is_zero_slip) == IF is_zero_slip THEN R(0) ELSE R(2)

\* is_zero_slip, opening fee and spread of the Avantis instrument
AvantisData(asset) ==
    LET zero == AvantisSymbol(asset) \in AVANTIS_ZERO_SLIPPAGE
    IN  [spread_bps      |-> AvantisSpread(zero),
         opening_fee_bps |-> AvantisOpening(Category(asset)),
         zero_slippage   |-> zero]

\* ------------------------------------------------------------------------
\* src/test.py: compare_asset, the block of one size
\* ------------------------------------------------------------------------

\* the Hyperliquid / Lighter block: zero or one entry
TestBookVenue(dex, book, size, fee_bps) ==
    IF IsNone(book) THEN <<>>
    ELSE LET buy_slip  == calculate_slippage(book, size, "buy")
             sell_slip == calculate_slippage(book, size, "sell")
             fee_usd   == RMul(size, RDiv(fee_bps, R(10000)))
         IN  IF IsNone(buy_slip) \/ IsNone(sell_slip) THEN <<>>
             ELSE IF ~IsNone(buy_slip.slippage_bps)
                     /\ ~IsNone(sell_slip.slippage_bps)
             THEN <<[dex       |-> dex,
                     total_bps |-> RAdd(RDiv(RAdd(buy_slip.slippage_bps,
                                                  sell_slip.slippage_bps),
                                             R(2)), fee_bps),
                     fee_usd   |-> fee_usd,
                     partial   |-> ~(buy_slip.filled /\ sell_slip.filled)]>>
             ELSE IF ~IsNone(buy_slip.slippage_bps)
             THEN <<[dex       |-> dex,
                     total_bps |-> RAdd(buy_slip.slippage_bps, fee_bps),
                     fee_usd   |-> fee_usd,
                     partial   |-> TRUE]>>
             ELSE <<>>

\* mutant: the oracle fee, converted to bps of the size, enters the total
TestOstiumOracleInTotal(os_data, size) ==
    IF IsNone(os_data) THEN <<>>
    ELSE <<[dex       |-> "Ostium",
            total_bps |-> RAdd(RAdd(os_data.spread_bps, os_data.opening_fee_bps),
                               RMul(RDiv(os_data.oracle_fee, size), R(10000))),
            fee_usd   |-> RAdd(RMul(size, RDiv(os_data.opening_fee_bps,
                                               R(10000))),
                               os_data.oracle_fee)]>>

TestOstium(os_data, size) ==
    IF IsNone(os_data) THEN <<>>
    ELSE <<[dex       |-> "Ostium",
            total_bps |-> RAdd(os_data.spread_bps, os_data.opening_fee_bps),
            fee_usd   |-> RAdd(RMul(size, RDiv(os_data.opening_fee_bps,
                                               R(10000))),
                               os_data.oracle_fee)]>>

TestAvantis(av_data, size) ==
    <<[dex       |-> "Avantis",
       total_bps |-> RAdd(av_data.spread_bps, av_data.opening_fee_bps),
       fee_usd   |-> RMul(size, RDiv(av_data.opening_fee_bps, R(10000)))]>>

\* mutant: the fixed-fee venue is appended only next to a venue with a book
TestSizeResultsNoFixedFee(hl, lt, os_data, av_data, size) ==
    LET books == TestBookVenue("Hyperliquid", hl, size,
                               TakerFee("test", "Hyperliquid"))
                 \o TestBookVenue("Lighter", lt, size,
                                  TakerFee("test", "Lighter"))
    IN  books \o TestOstium(os_data, size)
        \o (IF books = <<>> THEN <<>> ELSE TestAvantis(av_data, size))

\* size_results of one iteration of "for size in order_sizes"
TestSizeResults(hl, lt, os_data, av_data, size) ==
    TestBookVenue("Hyperliquid", hl, size, TakerFee("test", "Hyperliquid"))
    \o TestBookVenue("Lighter", lt, size, TakerFee("test", "Lighter"))
    \o TestOstium(os_data, size)
    \o TestAvantis(av_data, size)

\* ------------------------------------------------------------------------
\* src/internal_analytic/lighter_debug.py: compare_asset, the block of one size
\* ------------------------------------------------------------------------

AnalyticBookVenue(dex, book, size, fee_bps) ==
    IF IsNone(book) THEN <<>>
    ELSE LET exec_cost == calculate_execution_cost(book, size, fee_bps)
         IN  IF IsNone(exec_cost) THEN <<>>
             ELSE <<[dex            |-> dex,
                     total_cost_bps |-> exec_cost.total_cost_bps,
                     fee_dollars    |-> exec_cost.fee_dollars,
                     has_data       |-> TRUE]>>

AnalyticOstium(os_data, size) ==
    IF IsNone(os_data) THEN <<>>
    ELSE <<[dex            |-> "Ostium",
            total_cost_bps |-> RAdd(os_data.spread_bps, os_data.opening_fee_bps),
            fee_dollars    |-> RAdd(RMul(size, RDiv(os_data.opening_fee_bps,
                                                    R(10000))),
                                    os_data.oracle_fee),
            has_data       |-> TRUE]>>

AnalyticAvantis(av_data, size) ==
    IF IsNone(av_data) THEN <<>>
    ELSE <<[dex            |-> "Avantis",
            total_cost_bps |-> RAdd(av_data.spread_bps, av_data.opening_fee_bps),
            fee_dollars    |-> RMul(size, RDiv(av_data.opening_fee_bps,
                                               R(10000))),
            has_data       |-> TRUE]>>

AnalyticSizeResults(hl, lt, os_data, av_data, size) ==
    AnalyticBookVenue("Hyperliquid", hl, size, TakerFee("analytic", "Hyperliquid"))
    \o AnalyticBookVenue("Lighter", lt, size, TakerFee("analytic", "Lighter"))
    \o AnalyticOstium(os_data, size)
    \o AnalyticAvantis(av_data, size)

\* ------------------------------------------------------------------------
\* interactive_mode of both scripts: the cheapest venue per size
\* ------------------------------------------------------------------------

\* the key of the summary sort: 'total_bps' / 'total_cost_bps'
TotalBps(e) ==
    IF "total_bps" \in DOMAIN e THEN e.total_bps ELSE e.total_cost_bps

\* sorted(valid, key=total): stable, x goes behind every entry <= x
RECURSIVE InsertByTotal(_, _)
InsertByTotal(x, s) ==
    IF s = <<>> THEN <<x>>
    ELSE IF RLt(TotalBps(x), TotalBps(Head(s))) THEN <<x>> \o s
    ELSE <<Head(s)>> \o InsertByTotal(x, Tail(s))

RECURSIVE SortByTotal(_)
SortByTotal(s) ==
    IF s = <<>> THEN <<>>
    ELSE InsertByTotal(s[Len(s)], SortByTotal(SubSeq(s, 1, Len(s) - 1)))

\* mutant: the savings are taken the other way round
SummaryLineReversed(entries) ==
    LET sorted_res == SortByTotal(entries)
    IN  IF entries = <<>> THEN None
        ELSE [sorted_res |-> sorted_res,
              cheapest   |-> sorted_res[1],
              savings    |-> IF Len(sorted_res) > 1
                             THEN RSub(TotalBps(sorted_res[1]),
                                       TotalBps(sorted_res[2]))
                             ELSE None]

\* one line of the summary: the sorted results, the cheapest, the savings
SummaryLine(entries) ==
    LET sorted_res == SortByTotal(entries)
    IN  IF entries = <<>> THEN None
        ELSE [sorted_res |-> sorted_res,
              cheapest   |-> sorted_res[1],
              savings    |-> IF Len(sorted_res) > 1
                             THEN RSub(TotalBps(sorted_res[2]),
                                       TotalBps(sorted_res[1]))
                             ELSE None]

\* ------------------------------------------------------------------------
\* src/orderbook.py: the rows printed for one size
\* ------------------------------------------------------------------------

\* DEX_FEES: taker 0.035 %, Ostium opening 0.1 %, rollover 0.008 % per day
OBTakerRate == Norm(35, 100000)

OBOstiumOpening == Norm(1, 1000)

OBOstiumRollover == Norm(8, 100000)

\* hold_days, the default of calculate_multi_dex_comparison
HoldDays == 1

\* the rows of one size: the walked total_cost / total_value, the opening
\* (taker) fee and the rollover fee of each venue
OBRows(sd, dollar_size, total) ==
    <<[dex |-> "Hyperliquid", side |-> sd, size |-> dollar_size,
       base |-> total, fee |-> RMul(total, OBTakerRate), rollover |-> R(0)],
      [dex |-> "Lighter", side |-> sd, size |-> dollar_size,
       base |-> total, fee |-> R(0), rollover |-> R(0)],
      [dex |-> "Ostium", side |-> sd, size |-> dollar_size,
       base |-> total,
       fee |-> IF sd = "buy" THEN RMul(total, OBOstiumOpening) ELSE R(0),
       rollover |-> RMul(RMul(total, OBOstiumRollover), R(HoldDays))],
      [dex |-> "Avantis", side |-> sd, size |-> dollar_size,
       base |-> total, fee |-> R(0), rollover |-> R(0)]>>

\* hl_total / os_total ... (buy) and hl_net / os_net ... (sell) of a row
OBRowTotal(row) ==
    IF row.side = "buy" THEN RAdd(row.base, RAdd(row.fee, row.rollover))
    ELSE RSub(row.base, RAdd(row.fee, row.rollover))

RECURSIVE OBWalk(_, _, _)
OBWalk(st, lv, sd) ==
    IF lv = <<>> \/ st.stop THEN st
    ELSE OBWalk(OBStep(st, Head(lv), sd), Tail(lv), sd)

\* ------------------------------------------------------------------------
\* The walkers as a state machine: one call of one walker on one snapshot
\* ------------------------------------------------------------------------

VARIABLES
    walker,       \* which walker runs: "test", "lighter", "orderbook", "exec"
    side,         \* "buy" or "sell"
    orderbook,    \* the snapshot: [bids, asks], raw levels in feed order
    size_usd,     \* requested notional
    levels,       \* the list the loop iterates
    idx,          \* position of the loop in levels
    remaining,    \* remaining / unfilled / remaining_dollars / remaining_coins
    total_qty,    \* total_qty / total_coins
    total_cost,   \* total_cost / total_value
    levels_used,  \* levels_used / filled_levels
    worst_price,
    stopped,      \* the loop left through break
    pc,           \* "idle", "loop", "done"
    result,       \* the returned value
    call,         \* "first" or "second" call with the same arguments
    prev,         \* what the first call returned
    prog,         \* the script that runs: "test", "analytic", "orderbook"
    asset,        \* the asset key the comparison is asked for
    feed_hl,      \* what Hyperliquid answers: a book, or None when it fails
    feed_lt,      \* what Lighter answers
    hl_book,      \* hl_book / orderbook after the fetch
    lt_book,      \* lt_book after the fetch
    os_data,      \* os_data
    av_data,      \* av_fees with is_zero_slip / av_data
    order_sizes,  \* the sizes of the run
    k,            \* position of the loop over order_sizes
    results,      \* the results appended so far, one record per size
    ranking,      \* the summary: one line per size
    cpc           \* position of the comparison run

walkVars == <<walker, side, orderbook, size_usd, levels, idx, remaining,
              total_qty, total_cost, levels_used, worst_price, stopped, pc,
              result, call, prev>>

cmpVars == <<prog, asset, feed_hl, feed_lt, hl_book, lt_book, os_data,
             av_data, order_sizes, k, results, ranking, cpc>>

Walkers == {"test", "lighter", "orderbook", "exec"}

Books == [bids : SeqsUpTo(BidLevels, MaxLevels),
          asks : SeqsUpTo(AskLevels, MaxLevels)]

\* the accumulators as one record, and their assignment
Acc == [remaining   |-> remaining,
        total_qty   |-> total_qty,
        total_cost  |-> total_cost,
        levels_used |-> levels_used,
        worst_price |-> worst_price,
        stop        |-> stopped]

SetAcc(st) ==
    /\ remaining'   = st.remaining
    /\ total_qty'   = st.total_qty
    /\ total_cost'  = st.total_cost
    /\ levels_used' = st.levels_used
    /\ worst_price' = st.worst_price
    /\ stopped'     = st.stop

\* the mid price each walker's caller uses
MidOf(w, ob) ==
    IF w = "test" THEN TestMid(ob)
    ELSE IF w = "lighter" THEN LighterMid(ob)
    ELSE IF w = "orderbook" THEN OBMid(ob)
    ELSE ExecMid(ob)

RECURSIVE SideValue(_)
SideValue(s) ==
    IF s = <<>> THEN R(0)
    ELSE RAdd(RMul(Head(s).price, Head(s).qty), SideValue(Tail(s)))

RECURSIVE SideQty(_)
SideQty(s) == IF s = <<>> THEN R(0) ELSE RAdd(Head(s).qty, SideQty(Tail(s)))

\* the notional that exceeds the walked side's depth by exactly 1e-4 in the
\* unit the walker consumes (USD, or coins converted at the mid price)
DepthPlusTol(w, ob, sd) ==
    IF sd = "buy" THEN RAdd(SideValue(ob.asks), Norm(1, 10000))
    ELSE IF w = "lighter" THEN RAdd(SideValue(ob.bids), Norm(1, 10000))
    ELSE RMul(RAdd(SideQty(ob.bids), Norm(1, 10000)), MidOf(w, ob))

\* no comparison runs
CmpOff ==
    /\ prog = "none"
    /\ asset = "AAPL"
    /\ feed_hl = None
    /\ feed_lt = None
    /\ hl_book = None
    /\ lt_book = None
    /\ os_data = None
    /\ av_data = None
    /\ order_sizes = <<>>
    /\ k = 0
    /\ results = <<>>
    /\ ranking = <<>>
    /\ cpc = "off"

InitWalk ==
    /\ walker \in Walkers
    /\ side \in Sides
    /\ walker = "exec" => side = "buy"
    /\ orderbook \in Books
    /\ size_usd \in Sizes \cup {DepthPlusTol(walker, orderbook, side)}
    /\ levels = <<>>
    /\ idx = 0
    /\ remaining = R(0)
    /\ total_qty = R(0)
    /\ total_cost = R(0)
    /\ levels_used = 0
    /\ worst_price = R(0)
    /\ stopped = FALSE
    /\ pc = "idle"
    /\ result = None
    /\ call = "first"
    /\ prev = None
    /\ CmpOff

\* what a walker returns or raises before its loop on a book with an empty
\* side, None when it goes on to the loop: test.py returns None for an empty
\* walked side and max() / min() raise ValueError on an empty other side;
\* orderbook.py indexes bids[0] and asks[0]; the clients of the analytic
\* script hand None to calculate_execution_cost when a side is empty;
\* LighterDebugger.calculate_slippage takes the levels as they are
EarlyExit(w, ob, sd) ==
    IF w = "test"
    THEN IF TestLevels(ob, sd) = <<>> THEN [value |-> None]
         ELSE IF ob.bids = <<>> \/ ob.asks = <<>>
              THEN [value |-> [error |-> "ValueError"]]
         ELSE None
    ELSE IF w = "orderbook"
    THEN IF ob.bids = <<>> \/ ob.asks = <<>>
         THEN [value |-> [error |-> "IndexError"]]
         ELSE None
    ELSE IF w = "exec"
    THEN IF ob.bids = <<>> \/ ob.asks = <<>> THEN [value |-> None] ELSE None
    ELSE None

\* mutant: the totals are kept from the previous call
StartKeepsTotals(w, ob, size, sd) ==
    [(IF w = "test" THEN TestStart(ob, size, sd)
      ELSE IF w = "lighter" THEN LighterStart(size)
      ELSE IF w = "orderbook" THEN OBStart(size, sd, OBMid(ob))
      ELSE ExecStart(size))
        EXCEPT !.total_qty = total_qty, !.total_cost = total_cost]

\* the local variables of a walker before its loop
StartOf(w, ob, size, sd) ==
    IF w = "test" THEN TestStart(ob, size, sd)
    ELSE IF w = "lighter" THEN LighterStart(size)
    ELSE IF w = "orderbook" THEN OBStart(size, sd, OBMid(ob))
    ELSE ExecStart(size)

\* mutant: test.py sorts the two lists of the snapshot in place
CallSortsInPlace ==
    /\ pc = "idle"
    /\ IF ~IsNone(EarlyExit(walker, orderbook, side))
       THEN /\ result' = EarlyExit(walker, orderbook, side).value
            /\ levels' = <<>>
            /\ SetAcc(LighterStart(R(0)))
            /\ idx' = 0
            /\ pc' = "done"
       ELSE /\ levels' = (IF walker = "test" THEN TestLevels(orderbook, side)
                          ELSE IF walker = "lighter"
                               THEN LighterLevels(orderbook, side)
                          ELSE IF walker = "orderbook"
                               THEN OBLevels(orderbook, side)
                          ELSE orderbook.asks)
            /\ SetAcc(StartOf(walker, orderbook, size_usd, side))
            /\ idx' = 1
            /\ pc' = "loop"
            /\ result' = None
    /\ orderbook' = (IF walker = "test"
                         /\ IsNone(EarlyExit(walker, orderbook, side))
                     THEN [bids |-> TestLevels(orderbook, "sell"),
                           asks |-> TestLevels(orderbook, "buy")]
                     ELSE orderbook)
    /\ UNCHANGED <<walker, side, size_usd, call, prev>>
    /\ UNCHANGED cmpVars

\* entry of the walker: the statements before the loop
Call ==
    /\ pc = "idle"
    /\ IF ~IsNone(EarlyExit(walker, orderbook, side))
       THEN /\ result' = EarlyExit(walker, orderbook, side).value
            /\ levels' = <<>>
            /\ SetAcc(LighterStart(R(0)))
            /\ idx' = 0
            /\ pc' = "done"
       ELSE /\ levels' = (IF walker = "test" THEN TestLevels(orderbook, side)
                          ELSE IF walker = "lighter"
                               THEN LighterLevels(orderbook, side)
                          ELSE IF walker = "orderbook"
                               THEN OBLevels(orderbook, side)
                          ELSE orderbook.asks)
            /\ SetAcc(StartOf(walker, orderbook, size_usd, side))
            /\ idx' = 1
            /\ pc' = "loop"
            /\ result' = None
    /\ UNCHANGED <<walker, side, orderbook, size_usd, call, prev>>
    /\ UNCHANGED cmpVars

InLoop == pc = "loop" /\ ~stopped /\ idx <= Len(levels)

LoopFrame ==
    /\ UNCHANGED <<walker, side, orderbook, size_usd, levels, pc, result,
                   call, prev>>
    /\ UNCHANGED cmpVars

TestLoop ==
    /\ walker = "test" /\ InLoop
    /\ SetAcc(TestStep(Acc, levels[idx], side, size_usd, TestMid(orderbook)))
    /\ idx' = idx + 1
    /\ LoopFrame

LighterLoop ==
    /\ walker = "lighter" /\ InLoop
    /\ SetAcc(LighterStep(Acc, levels[idx]))
    /\ idx' = idx + 1
    /\ LoopFrame

OBLoop ==
    /\ walker = "orderbook" /\ InLoop
    /\ SetAcc(OBStep(Acc, levels[idx], side))
    /\ idx' = idx + 1
    /\ LoopFrame

ExecLoop ==
    /\ walker = "exec" /\ InLoop
    /\ SetAcc(ExecStep(Acc, levels[idx]))
    /\ idx' = idx + 1
    /\ LoopFrame

\* orderbook.py after a loop: the size is skipped, or the average price is
\* computed (ZeroDivisionError when nothing was bought / nothing was asked)
OBReturn(st, sd, dollar_size, mid_price) ==
    LET divisor == IF sd = "buy" THEN st.total_qty
                   ELSE RDiv(dollar_size, mid_price)
    IN  IF OBInsufficient(st, sd) THEN [insufficient |-> TRUE]
        ELSE IF divisor = R(0) THEN [error |-> "ZeroDivisionError"]
        ELSE [insufficient   |-> FALSE,
              avg_exec_price |-> RDiv(st.total_cost, divisor),
              total_coins    |-> st.total_qty,
              total_cost     |-> st.total_cost]

\* the statements after the loop, to the return
Return ==
    /\ pc = "loop"
    /\ stopped \/ idx > Len(levels)
    /\ result' = (IF walker = "test"
                  THEN TestReturn(Acc, orderbook, size_usd, side)
                  ELSE IF walker = "lighter" THEN LighterReturn(Acc)
                  ELSE IF walker = "orderbook"
                       THEN OBReturn(Acc, side, size_usd, OBMid(orderbook))
                  ELSE ExecReturn(Acc, ExecMid(orderbook), R(0)))
    /\ pc' = "done"
    /\ UNCHANGED <<walker, side, orderbook, size_usd, levels, idx, remaining,
                   total_qty, total_cost, levels_used, worst_price, stopped,
                   call, prev>>
    /\ UNCHANGED cmpVars

NextWalk == Call \/ TestLoop \/ LighterLoop \/ OBLoop \/ ExecLoop \/ Return

vars == <<walkVars, cmpVars>>

Init == InitWalk

Next == NextWalk

Spec == Init /\ [][Next]_vars

\* ------------------------------------------------------------------------
\* The walkers on raw snapshots: empty sides, entries without quantity,
\* repeated prices, crossed books; each request is walked twice
\* ------------------------------------------------------------------------

RawAskPrices == {98, 100}

RawBidPrices == {97, 99}

RawQtys == {0, 5}

\* asks may repeat a price with another quantity
RawAskQtys == RawQtys \cup {3}

RawAskLevels == {Level(p, q) : p \in RawAskPrices, q \in RawAskQtys}

RawBidLevels == {Level(p, q) : p \in RawBidPrices, q \in RawQtys}

RawSides(S) == {<<>>} \cup SeqsUpTo(S, MaxLevels)

RawBooks == [bids : RawSides(RawBidLevels), asks : RawSides(RawAskLevels)]

RawSizes == {R(400), R(600)}

InitRaw ==
    /\ walker \in Walkers
    /\ side \in Sides
    /\ walker = "exec" => side = "buy"
    /\ orderbook \in RawBooks
    /\ size_usd \in RawSizes
    /\ levels = <<>>
    /\ idx = 0
    /\ remaining = R(0)
    /\ total_qty = R(0)
    /\ total_cost = R(0)
    /\ levels_used = 0
    /\ worst_price = R(0)
    /\ stopped = FALSE
    /\ pc = "idle"
    /\ result = None
    /\ call = "first"
    /\ prev = None
    /\ CmpOff

\* the caller keeps what the first call returned and calls again with the
\* same arguments
Repeat ==
    /\ pc = "done" /\ call = "first"
    /\ prev' = result
    /\ call' = "second"
    /\ pc' = "idle"
    /\ UNCHANGED <<walker, side, orderbook, size_usd, levels, idx, remaining,
                   total_qty, total_cost, levels_used, worst_price, stopped,
                   result>>
    /\ UNCHANGED cmpVars

NextRaw ==
    Call \/ TestLoop \/ LighterLoop \/ OBLoop \/ ExecLoop \/ Return \/ Repeat

SpecRaw == InitRaw /\ [][NextRaw]_vars

\* ------------------------------------------------------------------------
\* The comparison runs as a state machine
\* ------------------------------------------------------------------------

Progs == {"test", "analytic", "orderbook"}

\* the order sizes of a run
OrderSizeLists == {<<R(600)>>, <<R(600), R(1000)>>}

\* a thin and a deeper book, and the answers of a venue that is not varied
ThinBook == [bids |-> <<Level(99, 3)>>, asks |-> <<Level(101, 5)>>]

DeepBook == [bids |-> <<Level(99, 5), Level(98, 5)>>,
             asks |-> <<Level(100, 10), Level(101, 10)>>]

FewFeeds == {None, ThinBook, DeepBook}

AllFeeds == Books \cup {None}

\* get_orderbook of the clients: None on failure or when a side is empty;
\* only LighterClient of test.py sorts the sides
GetOrderbook(p, dex, feed) ==
    IF IsNone(feed) THEN None
    ELSE IF feed.bids = <<>> \/ feed.asks = <<>> THEN None
    ELSE IF p = "test" /\ dex = "Lighter"
         THEN [bids |-> SortDesc(feed.bids), asks |-> SortAsc(feed.asks)]
    ELSE feed

\* no walker runs on its own
WalkOff ==
    /\ walker = "test"
    /\ side = "buy"
    /\ orderbook = [bids |-> <<>>, asks |-> <<>>]
    /\ size_usd = R(0)
    /\ levels = <<>>
    /\ idx = 0
    /\ remaining = R(0)
    /\ total_qty = R(0)
    /\ total_cost = R(0)
    /\ levels_used = 0
    /\ worst_price = R(0)
    /\ stopped = FALSE
    /\ pc = "off"
    /\ result = None
    /\ call = "first"
    /\ prev = None

InitCompare ==
    /\ WalkOff
    /\ prog \in Progs
    /\ \/ asset \in Assets /\ feed_hl \in FewFeeds /\ feed_lt \in FewFeeds
       \/ asset = "GOLD" /\ feed_hl \in AllFeeds /\ feed_lt \in {None, DeepBook}
       \/ asset = "GOLD" /\ feed_hl \in {None, DeepBook} /\ feed_lt \in AllFeeds
    /\ prog = "orderbook" => feed_lt = None
    /\ order_sizes \in OrderSizeLists
    /\ hl_book = None
    /\ lt_book = None
    /\ os_data = None
    /\ av_data = None
    /\ k = 0
    /\ results = <<>>
    /\ ranking = <<>>
    /\ cpc = "fetch_hl"

\* hl_book = HyperliquidClient.get_orderbook(...)
FetchHyperliquid ==
    /\ cpc = "fetch_hl" /\ prog # "orderbook"
    /\ hl_book' = GetOrderbook(prog, "Hyperliquid", feed_hl)
    /\ cpc' = "fetch_lt"
    /\ UNCHANGED <<prog, asset, feed_hl, feed_lt, lt_book, os_data, av_data,
                   order_sizes, k, results, ranking>>
    /\ UNCHANGED walkVars

\* lt_book = LighterClient.get_orderbook(...)
FetchLighter ==
    /\ cpc = "fetch_lt"
    /\ lt_book' = GetOrderbook(prog, "Lighter", feed_lt)
    /\ cpc' = "fetch_os"
    /\ UNCHANGED <<prog, asset, feed_hl, feed_lt, hl_book, os_data, av_data,
                   order_sizes, k, results, ranking>>
    /\ UNCHANGED walkVars

\* os_data = OstiumClient.get_data(...)
FetchOstium ==
    /\ cpc = "fetch_os"
    /\ os_data' = OstiumData(Category(asset))
    /\ cpc' = "fetch_av"
    /\ UNCHANGED <<prog, asset, feed_hl, feed_lt, hl_book, lt_book, av_data,
                   order_sizes, k, results, ranking>>
    /\ UNCHANGED walkVars

\* av_fees, is_zero_slip / av_data = AvantisClient.get_data(...)
FetchAvantis ==
    /\ cpc = "fetch_av"
    /\ av_data' = AvantisData(asset)
    /\ k' = 1
    /\ cpc' = "sizes"
    /\ UNCHANGED <<prog, asset, feed_hl, feed_lt, hl_book, lt_book, os_data,
                   order_sizes, results, ranking>>
    /\ UNCHANGED walkVars

\* mutant: every size asks the venues for their books again
EvalSizeLiveFeed ==
    /\ cpc = "sizes" /\ prog # "orderbook"
    /\ k <= Len(order_sizes)
    /\ results' = Append(results,
           [size    |-> order_sizes[k],
            entries |-> IF prog = "test"
                        THEN TestSizeResults(
                                 GetOrderbook(prog, "Hyperliquid", feed_hl),
                                 GetOrderbook(prog, "Lighter", feed_lt),
                                 os_data, av_data, order_sizes[k])
                        ELSE AnalyticSizeResults(
                                 GetOrderbook(prog, "Hyperliquid", feed_hl),
                                 GetOrderbook(prog, "Lighter", feed_lt),
                                 os_data, av_data, order_sizes[k])])
    /\ k' = k + 1
    /\ UNCHANGED <<prog, asset, feed_hl, feed_lt, hl_book, lt_book, os_data,
                   av_data, order_sizes, ranking, cpc>>
    /\ UNCHANGED walkVars

\* one iteration of "for size in order_sizes" in compare_asset
EvalSize ==
    /\ cpc = "sizes" /\ prog # "orderbook"
    /\ k <= Len(order_sizes)
    /\ results' = Append(results,
           [size    |-> order_sizes[k],
            entries |-> IF prog = "test"
                        THEN TestSizeResults(hl_book, lt_book, os_data,
                                             av_data, order_sizes[k])
                        ELSE AnalyticSizeResults(hl_book, lt_book, os_data,
                                                 av_data, order_sizes[k])])
    /\ k' = k + 1
    /\ UNCHANGED <<prog, asset, feed_hl, feed_lt, hl_book, lt_book, os_data,
                   av_data, order_sizes, ranking, cpc>>
    /\ UNCHANGED walkVars

\* compare_asset returns; interactive_mode prints the summary
Summary ==
    /\ cpc = "sizes" /\ prog # "orderbook"
    /\ k > Len(order_sizes)
    /\ ranking' = [i \in 1..Len(results) |-> SummaryLine(results[i].entries)]
    /\ cpc' = "done"
    /\ UNCHANGED <<prog, asset, feed_hl, feed_lt, hl_book, lt_book, os_data,
                   av_data, order_sizes, k, results>>
    /\ UNCHANGED walkVars

\* slippage_dollars of a buy size that was filled, the "Slippage" column of
\* the Hyperliquid, Lighter, Ostium and Avantis row alike
OBSlippageDollars(book, dollar_size) ==
    LET mid_price == OBMid(book)
        st  == OBWalk(OBStart(dollar_size, "buy", mid_price),
                      OBLevels(book, "buy"), "buy")
        ret == OBReturn(st, "buy", dollar_size, mid_price)
    IN  RMul(RSub(ret.avg_exec_price, mid_price), st.total_qty)

\* orderbook.py: l2_snapshot and the mid price; any exception ends the run
OBFetch ==
    /\ cpc = "fetch_hl" /\ prog = "orderbook"
    /\ IF IsNone(feed_hl) \/ (~IsNone(feed_hl) /\ (feed_hl.bids = <<>>
                                                  \/ feed_hl.asks = <<>>))
       THEN /\ cpc' = "aborted"
            /\ UNCHANGED <<hl_book, k>>
       ELSE /\ hl_book' = feed_hl
            /\ k' = 1
            /\ cpc' = "buy_sizes"
    /\ UNCHANGED <<prog, asset, feed_hl, feed_lt, lt_book, os_data, av_data,
                   order_sizes, results, ranking>>
    /\ UNCHANGED walkVars

\* orderbook.py: one iteration of the loop over dollar_amounts of one side
OBSize(sd) ==
    LET dollar_size == order_sizes[k]
        mid_price   == OBMid(hl_book)
        st  == OBWalk(OBStart(dollar_size, sd, mid_price),
                      OBLevels(hl_book, sd), sd)
        ret == OBReturn(st, sd, dollar_size, mid_price)
    IN  /\ k <= Len(order_sizes)
        /\ IF "error" \in DOMAIN ret
           THEN /\ cpc' = "aborted"
                /\ UNCHANGED <<results, k>>
           ELSE /\ results' = (IF ret.insufficient THEN results
                               ELSE results \o OBRows(sd, dollar_size,
                                                      st.total_cost))
                /\ k' = k + 1
                /\ UNCHANGED cpc
        /\ UNCHANGED <<prog, asset, feed_hl, feed_lt, hl_book, lt_book,
                       os_data, av_data, order_sizes, ranking>>
        /\ UNCHANGED walkVars

OBBuySize == cpc = "buy_sizes" /\ OBSize("buy")

OBSellSize == cpc = "sell_sizes" /\ OBSize("sell")

\* the end of the buy loop, and of the sell loop and the run
OBNextLoop ==
    /\ cpc \in {"buy_sizes", "sell_sizes"}
    /\ k > Len(order_sizes)
    /\ IF cpc = "buy_sizes" THEN cpc' = "sell_sizes" /\ k' = 1
       ELSE cpc' = "done" /\ UNCHANGED k
    /\ UNCHANGED <<prog, asset, feed_hl, feed_lt, hl_book, lt_book, os_data,
                   av_data, order_sizes, results, ranking>>
    /\ UNCHANGED walkVars

NextCompare ==
    \/ FetchHyperliquid \/ FetchLighter \/ FetchOstium \/ FetchAvantis
    \/ EvalSize \/ Summary
    \/ OBFetch \/ OBBuySize \/ OBSellSize \/ OBNextLoop

SpecCompare == InitCompare /\ [][NextCompare]_vars

\* ------------------------------------------------------------------------
\* compare_asset while the venues' books move: what the API would answer
\* changes between the requests of a run
\* ------------------------------------------------------------------------

\* the answer a later request to the venues would get has changed
FeedChange ==
    /\ cpc \in {"fetch_hl", "fetch_lt", "fetch_os", "fetch_av", "sizes"}
    /\ \E f \in FewFeeds, g \in FewFeeds :
           /\ <<f, g>> # <<feed_hl, feed_lt>>
           /\ feed_hl' = f
           /\ feed_lt' = g
    /\ UNCHANGED <<prog, asset, hl_book, lt_book, os_data, av_data,
                   order_sizes, k, results, ranking, cpc>>
    /\ UNCHANGED walkVars

InitFetch ==
    /\ InitCompare
    /\ prog \in {"test", "analytic"}
    /\ feed_hl \in FewFeeds
    /\ feed_lt \in FewFeeds

NextFetch ==
    \/ FetchHyperliquid \/ FetchLighter \/ FetchOstium \/ FetchAvantis
    \/ EvalSize \/ Summary
    \/ FeedChange

SpecFetch == InitFetch /\ [][NextFetch]_vars

\* ------------------------------------------------------------------------
\* Claims about the walkers
\* ------------------------------------------------------------------------

Done == pc = "done"

\* the walk ended with filled = true
Filled ==
    /\ Done
    /\ walker \in {"test", "lighter"}
    /\ ~IsNone(result)
    /\ result.filled

\* the 1e-4 tolerance of test.py and lighter_debug.py
Tol == Norm(1, 10000)

ScenarioAsks == <<Level(100, 5), Level(101, 10)>>

\* a buy walk of test.py or lighter_debug.py for a positive notional
BuyWalk == walker \in {"test", "lighter"} /\ side = "buy" /\ RLt(R(0), size_usd)

\* the greedy rule at the level the loop visits
C1Rule ==
    (BuyWalk /\ InLoop /\ idx' = idx + 1) =>
        LET price == levels[idx].price
            qty   == levels[idx].qty
            value == RMul(price, qty)
        IN  IF RLe(remaining, value)
            THEN /\ total_qty' = RAdd(total_qty, RDiv(remaining, price))
                 /\ total_cost' = RAdd(total_cost, remaining)
                 /\ remaining' = R(0)
                 /\ stopped'
            ELSE /\ total_qty' = RAdd(total_qty, qty)
                 /\ total_cost' = RAdd(total_cost, value)
                 /\ remaining' = RSub(remaining, value)
                 /\ ~stopped'

\* the documented scenario: asks [(100,5),(101,10)], $600
C1Scenario ==
    (BuyWalk /\ Done /\ orderbook.asks = ScenarioAsks /\ size_usd = R(600)) =>
        /\ Filled
        /\ levels_used = 2
        /\ total_cost = R(600)
        /\ total_qty = Norm(605, 101)
        /\ result.avg_price = (IF walker = "test" THEN Round6(Norm(60600, 605))
                               ELSE Norm(60600, 605))

\* the end of a filled buy walk as the spec states it
C1FilledAsStated ==
    (BuyWalk /\ Filled) =>
        /\ total_cost = size_usd
        /\ result.avg_price = RDiv(total_cost, total_qty)

\* C1 as stated: the greedy rule holds at every level, and a buy walk that
\* ends filled has total cost = requested notional and avgPrice = total cost
\* / total quantity.
C1_Original == [][C1Rule]_vars /\ []C1FilledAsStated

\* the end of a filled buy walk as the code computes it
C1Filled ==
    (BuyWalk /\ Filled) =>
        /\ RAdd(total_cost, remaining) = size_usd
        /\ RLe(R(0), remaining) /\ RLe(remaining, Tol)
        /\ stopped => total_cost = size_usd
        /\ result.avg_price = (IF walker = "test"
                               THEN Round6(RDiv(total_cost, total_qty))
                               ELSE RDiv(total_cost, total_qty))

\* C1 (amended): the greedy rule holds at every level of a buy walk; when the
\* walk ends filled, total cost + remaining = requested notional with
\* remaining <= 1e-4 (total cost = notional when the walk stopped inside a
\* level), and avgPrice = total cost / total quantity, which test.py reports
\* rounded to 6 decimals; the $600 scenario fills two levels.
C1_BuyWalk == [][C1Rule]_vars /\ []C1Filled /\ []C1Scenario

\* the scenario walk of test.py has returned
C1_Witness ==
    /\ walker = "test" /\ side = "buy" /\ Done
    /\ orderbook.asks = ScenarioAsks /\ size_usd = R(600)
    /\ result.filled /\ levels_used = 2

InvalidRequest == [error |-> "InvalidRequest"]

\* C2: a walk requested with notionalUsd <= 0 fails with InvalidRequest before
\* any level is visited and never returns a fill result.
C2_InvalidRequest ==
    RLe(size_usd, R(0)) =>
        /\ levels_used = 0
        /\ Done => result = InvalidRequest

\* value of the ask side
AskValue == SideValue(orderbook.asks)

TargetQty == RDiv(size_usd, MidOf(walker, orderbook))

\* C7: in every walker used for the sell side the USD notional is converted
\* to a target quantity = notional / mid and bids are consumed in quantity,
\* so that at every step quantity consumed + remaining quantity = target.
C7_SellWalk ==
    (side = "sell" /\ pc \in {"loop", "done"} /\ levels_used >= 1
        /\ RLt(R(0), size_usd)) =>
        RAdd(total_qty, remaining) = TargetQty

BidQty == SideQty(orderbook.bids)

BidValue == SideValue(orderbook.bids)

SellWalk == walker = "test" /\ side = "sell" /\ Done /\ RLt(R(0), size_usd)

\* the documented scenario: bids [(99,3)], mid 100, $1000
C8Scenario ==
    (SellWalk /\ orderbook.bids = <<Level(99, 3)>>
        /\ TestMid(orderbook) = R(100) /\ size_usd = R(1000)) =>
        /\ TargetQty = R(10)
        /\ remaining = R(7)
        /\ result.filled = FALSE
        /\ result.filled_percent = Norm(297, 10)

\* C8 as stated: a sell whose target quantity exceeds the total bid quantity
\* is filled = false with remaining = target - total bid quantity and the
\* fill percentage of the scenario.
C8_Original ==
    /\ (SellWalk /\ RLt(BidQty, TargetQty)) =>
           /\ ~IsNone(result)
           /\ ~result.filled
           /\ remaining = RSub(TargetQty, BidQty)
           /\ result.filled_percent
                  = Round2(RDiv(RMul(R(100), BidValue), size_usd))
    /\ C8Scenario

\* C8 (amended): a sell whose target quantity exceeds the total bid quantity
\* leaves remaining = target - total bid quantity; it is filled = false,
\* with fillPercent = 100 * value sold / notional rounded to 2 decimals,
\* when the excess is more than 1e-4, and filled = true otherwise; the
\* scenario gives target 10, remaining 7, fillPercent 29.7.
C8_SellUnfilled ==
    /\ (SellWalk /\ RLt(BidQty, TargetQty)) =>
           /\ ~IsNone(result)
           /\ remaining = RSub(TargetQty, BidQty)
           /\ result.filled = RLe(remaining, Tol)
           /\ ~result.filled =>
                  result.filled_percent
                      = Round2(RDiv(RMul(R(100), BidValue), size_usd))
    /\ C8Scenario

\* the scenario sell of test.py has returned
C8_Witness ==
    /\ SellWalk /\ orderbook.bids = <<Level(99, 3)>>
    /\ TestMid(orderbook) = R(100) /\ size_usd = R(1000)
    /\ remaining = R(7) /\ ~result.filled


\* ------------------------------------------------------------------------
\* Properties of the comparison runs
\* ------------------------------------------------------------------------

\* a run of test.py or of the analytic script has printed its summary
Ranked == prog \in {"test", "analytic"} /\ cpc = "done"

HasDex(entries, dex) == \E j \in 1..Len(entries) : entries[j].dex = dex

EntryOf(entries, dex) ==
    entries[CHOOSE j \in 1..Len(entries) : entries[j].dex = dex]

Without(entries, dex) == SelectSeq(entries, LAMBDA e : e.dex # dex)

\* position of a venue identifier in lexical ascending order
DexRank(dex) ==
    IF dex = "Avantis" THEN 1
    ELSE IF dex = "Hyperliquid" THEN 2
    ELSE IF dex = "Lighter" THEN 3
    ELSE 4

BookOf(dex) == IF dex = "Hyperliquid" THEN hl_book ELSE lt_book

BookVenues == {"Hyperliquid", "Lighter"}

\* C4: in the summary of every size the results are in ascending order of
\* their total cost in bps, and of two results with the same total the one
\* with the lexically smaller venue name stands first.
C4_Ranking ==
    Ranked =>
        \A i \in 1..Len(ranking) :
            ~IsNone(ranking[i]) =>
                LET r == ranking[i].sorted_res
                IN  \A a, b \in 1..Len(r) :
                        a < b =>
                            /\ RLe(TotalBps(r[a]), TotalBps(r[b]))
                            /\ TotalBps(r[a]) = TotalBps(r[b])
                                   => DexRank(r[a].dex) < DexRank(r[b].dex)

\* the book cannot fill the size: the asks are worth less than the notional,
\* or (where a sell is walked) the bids hold less than notional / mid
ShortBook(p, book, size) ==
    \/ RLt(SideValue(book.asks), size)
    \/ p = "test" /\ RLt(SideQty(book.bids), RDiv(size, TestMid(book)))

\* C5: a book venue whose walk cannot fill the requested size still has an
\* entry in the results of that size and in the ranking of that size.
C5_UnfilledKept ==
    Ranked =>
        \A i \in 1..Len(results) : \A dex \in BookVenues :
            (~IsNone(BookOf(dex))
             /\ ShortBook(prog, BookOf(dex), results[i].size))
                => /\ HasDex(results[i].entries, dex)
                   /\ ~IsNone(ranking[i])
                   /\ HasDex(ranking[i].sorted_res, dex)

\* both sides hold two or more levels, best first, at distinct prices
RECURSIVE StrictlyAsc(_)
StrictlyAsc(s) ==
    Len(s) < 2 \/ (RLt(s[1].price, s[2].price) /\ StrictlyAsc(Tail(s)))

RECURSIVE StrictlyDesc(_)
StrictlyDesc(s) ==
    Len(s) < 2 \/ (RLt(s[2].price, s[1].price) /\ StrictlyDesc(Tail(s)))

TwoPrices(book) ==
    /\ Len(book.asks) >= 2 /\ StrictlyAsc(book.asks)
    /\ Len(book.bids) >= 2 /\ StrictlyDesc(book.bids)

\* C6: for a book venue whose book has two or more distinct prices on each
\* side, the total cost in bps reported for a larger size of the run is never
\* below the one reported for a smaller size.
C6_Monotone ==
    Ranked =>
        \A i, j \in 1..Len(results) : \A dex \in BookVenues :
            (/\ RLt(results[i].size, results[j].size)
             /\ ~IsNone(BookOf(dex)) /\ TwoPrices(BookOf(dex))
             /\ HasDex(results[i].entries, dex)
             /\ HasDex(results[j].entries, dex))
                => RLe(TotalBps(EntryOf(results[i].entries, dex)),
                       TotalBps(EntryOf(results[j].entries, dex)))

\* C9: on an instrument with forced zero slippage the spread of Avantis is 0
\* and the total of its entry is the opening fee alone, for every size and
\* whatever the books of the other venues are; for gold that is 6 bps.
C9_ZeroSlippage ==
    (prog \in {"test", "analytic"} /\ ~IsNone(av_data)
     /\ av_data.zero_slippage) =>
        /\ av_data.spread_bps = R(0)
        /\ \A i \in 1..Len(results) :
               /\ HasDex(results[i].entries, "Avantis")
               /\ \A j \in 1..Len(results[i].entries) :
                      results[i].entries[j].dex = "Avantis" =>
                          /\ TotalBps(results[i].entries[j])
                                 = av_data.opening_fee_bps
                          /\ asset = "GOLD"
                                 => TotalBps(results[i].entries[j]) = R(6)

\* a finished run on gold over two sizes in which Hyperliquid's entry carries
\* walked slippage while the entries of Avantis total the 6 bps fee
C9_Witness ==
    /\ Ranked /\ asset = "GOLD" /\ Len(results) = 2
    /\ \A i \in 1..2 :
           /\ HasDex(results[i].entries, "Hyperliquid")
           /\ RLt(TakerFee(prog, "Hyperliquid"),
                  TotalBps(EntryOf(results[i].entries, "Hyperliquid")))
           /\ HasDex(results[i].entries, "Avantis")
           /\ TotalBps(EntryOf(results[i].entries, "Avantis")) = R(6)

\* the entries of one size as the running script computes them
EntriesOf(p, hl, lt, size) ==
    IF p = "test" THEN TestSizeResults(hl, lt, os_data, av_data, size)
    ELSE AnalyticSizeResults(hl, lt, os_data, av_data, size)

\* C10: when Hyperliquid or Lighter cannot supply a book, the run still
\* completes, no size has an entry of that venue, and the entries of the
\* other venues are those of a run in which that venue had a book.
C10_MissingVenue ==
    /\ (cpc \in {"done", "aborted"} /\ IsNone(feed_hl)) =>
           /\ cpc = "done"
           /\ \A i \in 1..Len(results) :
                  ~HasDex(results[i].entries, "Hyperliquid")
           /\ \A i \in 1..Len(results) : \A b \in {ThinBook, DeepBook} :
                  results[i].entries
                      = Without(EntriesOf(prog, b, lt_book, results[i].size),
                                "Hyperliquid")
    /\ (cpc \in {"done", "aborted"} /\ prog # "orderbook"
        /\ IsNone(feed_lt)) =>
           /\ cpc = "done"
           /\ \A i \in 1..Len(results) :
                  ~HasDex(results[i].entries, "Lighter")
           /\ \A i \in 1..Len(results) : \A b \in {ThinBook, DeepBook} :
                  results[i].entries
                      = Without(EntriesOf(prog, hl_book, b, results[i].size),
                                "Lighter")


\* orderbook.py reports the buy of this size as insufficient liquidity
OBShortBuy(book, size) == RLt(RAdd(SideValue(book.asks), OBBuyTolerance), size)

HasRow(rows, dex, sd, size) ==
    \E j \in 1..Len(rows) :
        rows[j].dex = dex /\ rows[j].side = sd /\ rows[j].size = size

\* C11: a book venue that cannot fill one size is reported for that size as a
\* result that is not filled; the run is not aborted, every size is
\* evaluated, and the other venues keep their results for that size.
C11_Insufficient ==
    /\ (prog \in {"test", "analytic"} /\ cpc \in {"done", "aborted"}) =>
           /\ cpc = "done"
           /\ Len(results) = Len(order_sizes)
           /\ \A i \in 1..Len(results) : \A dex \in BookVenues :
                  (~IsNone(BookOf(dex))
                   /\ ShortBook(prog, BookOf(dex), results[i].size)) =>
                      /\ HasDex(results[i].entries, dex)
                      /\ HasDex(results[i].entries, "Ostium")
                      /\ HasDex(results[i].entries, "Avantis")
                      /\ \A other \in BookVenues \ {dex} :
                             (~IsNone(BookOf(other))
                              /\ ~ShortBook(prog, BookOf(other),
                                            results[i].size))
                                 => HasDex(results[i].entries, other)
    /\ (prog = "orderbook" /\ cpc \in {"done", "aborted"}
        /\ ~IsNone(hl_book)) =>
           /\ cpc = "done"
           /\ \A i \in 1..Len(order_sizes) :
                  OBShortBuy(hl_book, order_sizes[i]) =>
                      \A dex \in {"Lighter", "Ostium", "Avantis"} :
                          HasRow(results, dex, "buy", order_sizes[i])


\* ------------------------------------------------------------------------
\* Properties of the walkers on raw snapshots
\* ------------------------------------------------------------------------

\* the second call with the same arguments has returned
SecondDone == pc = "done" /\ call = "second"

\* C12: a walker called twice with the same book, side and notional returns
\* the same value in every field; nothing of the first call is read by the
\* second.
C12_Deterministic == SecondDone => result = prev

\* a filled two-level buy of test.py returned twice
C12_Witness ==
    /\ SecondDone /\ walker = "test" /\ side = "buy"
    /\ ~IsNone(result) /\ "filled" \in DOMAIN result /\ result.filled
    /\ levels_used = 2
    /\ prev = result


\* total quantity of the entries of a raw side at one price that can be filled
RECURSIVE QtyAt(_, _)
QtyAt(s, price) ==
    IF s = <<>> THEN R(0)
    ELSE IF Head(s).price = price /\ RLt(R(0), Head(s).qty)
         THEN RAdd(Head(s).qty, QtyAt(Tail(s), price))
    ELSE QtyAt(Tail(s), price)

\* the raw side a walk of test.py is about
RawSide == IF side = "buy" THEN orderbook.asks ELSE orderbook.bids

\* C13: the levels test.py walks after sorting and skipping have strictly
\* monotonic prices (ascending asks, descending bids), no price <= 0 and no
\* quantity <= 0, and one level per price whose quantity is the sum of the
\* raw entries at that price.
C13_Normalized ==
    (walker = "test" /\ pc \in {"loop", "done"}) =>
        LET n == TestUsedLevels(levels)
        IN  /\ IF side = "buy" THEN StrictlyAsc(n) ELSE StrictlyDesc(n)
            /\ \A i \in 1..Len(n) :
                   /\ RLt(R(0), n[i].price)
                   /\ RLt(R(0), n[i].qty)
                   /\ n[i].qty = QtyAt(RawSide, n[i].price)


\* the book with the walked side replaced by the sorted levels
SortedBook ==
    IF side = "buy" THEN [orderbook EXCEPT !.asks = levels]
    ELSE [orderbook EXCEPT !.bids = levels]

\* C14: sorting is idempotent: the sorted levels of test.py, sorted again
\* (with or without the skipped entries), are the same sequence, and the
\* book LighterClient returns is unchanged by sorting it again.
C14_Idempotent ==
    /\ (walker = "test" /\ pc \in {"loop", "done"}) =>
           /\ TestLevels(SortedBook, side) = levels
           /\ TestUsedLevels(TestUsedLevels(levels)) = TestUsedLevels(levels)
           /\ (IF side = "buy" THEN SortAsc(TestUsedLevels(levels))
               ELSE SortDesc(TestUsedLevels(levels))) = TestUsedLevels(levels)
    /\ (walker = "test" /\ pc \in {"loop", "done"} /\ levels # <<>>) =>
           LET once == GetOrderbook("test", "Lighter", orderbook)
           IN  GetOrderbook("test", "Lighter", once) = once

\* test.py walks asks that arrived out of order
C14_Witness ==
    /\ walker = "test" /\ side = "buy" /\ pc = "loop"
    /\ Len(levels) = 2 /\ levels # orderbook.asks
    /\ RLt(levels[1].price, levels[2].price)


\* ------------------------------------------------------------------------
\* Properties of the cost columns of compare_asset
\* ------------------------------------------------------------------------

\* the slippage column of a venue's row: the average of the buy and the sell
\* walk (the buy walk alone when the sell walk has no slippage) in test.py,
\* the slippage of the buy walk in the analytic script, the estimated spread
\* of Ostium and Avantis
SlippageColumn(p, dex, size) ==
    IF dex = "Ostium" THEN os_data.spread_bps
    ELSE IF dex = "Avantis" THEN av_data.spread_bps
    ELSE IF p = "test"
    THEN LET buy_slip  == calculate_slippage(BookOf(dex), size, "buy")
             sell_slip == calculate_slippage(BookOf(dex), size, "sell")
         IN  IF IsNone(sell_slip.slippage_bps) THEN buy_slip.slippage_bps
             ELSE RDiv(RAdd(buy_slip.slippage_bps, sell_slip.slippage_bps),
                       R(2))
    ELSE calculate_execution_cost(BookOf(dex), size,
                                  TakerFee(p, dex)).slippage_bps

\* the fee column of a venue's row, in bps
FeeColumn(p, dex) ==
    IF dex = "Ostium" THEN os_data.opening_fee_bps
    ELSE IF dex = "Avantis" THEN av_data.opening_fee_bps
    ELSE TakerFee(p, dex)

TestFilledNotional(book, size, sd) ==
    TestWalk(TestStart(book, size, sd), TestLevels(book, sd), sd, size,
             TestMid(book)).total_cost

\* notional in USD that the buy walk of the analytic script filled
ExecFilledNotional(book, size) ==
    ExecWalk(ExecStart(size), book.asks).total_cost

\* notional the walk behind an entry of a walked venue filled: the buy walk,
\* and for an entry marked partial the sell walk, which is the one that
\* ran out of levels
FilledNotional(p, e, size) ==
    IF p = "analytic" THEN ExecFilledNotional(BookOf(e.dex), size)
    ELSE IF e.partial THEN TestFilledNotional(BookOf(e.dex), size, "sell")
    ELSE TestFilledNotional(BookOf(e.dex), size, "buy")

\* fee_usd / fee_dollars of an entry
FeeUsd(e) == IF "fee_usd" \in DOMAIN e THEN e.fee_usd ELSE e.fee_dollars

\* C16: the fee in USD of every entry of a walked venue is the notional the
\* walk filled times the venue's fee in bps / 10000, also in an entry of an
\* order that was filled in part only.
C16_FeeOnFilled ==
    prog \in {"test", "analytic"} =>
        \A i \in 1..Len(results) :
            \A j \in 1..Len(results[i].entries) :
                LET e == results[i].entries[j]
                IN  e.dex \in BookVenues =>
                        FeeUsd(e) = RMul(FilledNotional(prog, e,
                                                        results[i].size),
                                         RDiv(TakerFee(prog, e.dex), R(10000)))


\* C17: the oracle fee of Ostium adds the same amount to the fee in USD of
\* every size, and the total cost in bps of the Ostium entry is the spread
\* plus the bps equivalent of that fee in USD, fee / size * 10000.
C17_FlatFee ==
    prog \in {"test", "analytic"} =>
        \A i \in 1..Len(results) :
            HasDex(results[i].entries, "Ostium") =>
                LET e    == EntryOf(results[i].entries, "Ostium")
                    size == results[i].size
                IN  /\ RSub(FeeUsd(e),
                            RMul(size, RDiv(os_data.opening_fee_bps,
                                            R(10000))))
                         = os_data.oracle_fee
                    /\ TotalBps(e)
                         = RAdd(os_data.spread_bps,
                                RMul(RDiv(FeeUsd(e), size), R(10000)))


\* ------------------------------------------------------------------------
\* Properties of the results on raw snapshots
\* ------------------------------------------------------------------------

\* a walk of calculate_slippage (test.py) or calculate_execution_cost has
\* returned a result that carries a slippage
HasSlippage ==
    /\ pc = "done"
    /\ walker \in {"test", "exec"}
    /\ ~IsNone(result)
    /\ "slippage_bps" \in DOMAIN result
    /\ ~IsNone(result.slippage_bps)

\* |avg_price - mid_price| / mid_price * 10000 of the finished walk
AbsDeviationBps ==
    LET avg_price == RDiv(total_cost, total_qty)
        mid_price == MidOf(walker, orderbook)
    IN  RMul(RDiv(RAbs(RSub(avg_price, mid_price)), mid_price), R(10000))

\* C18: the slippage a walk reports is |avg - mid| / mid * 10000 (to the two
\* decimals test.py keeps) and never negative, for buy and sell and for
\* every book, a crossed one included.
C18_AbsSlippage ==
    HasSlippage =>
        /\ RLe(R(0), result.slippage_bps)
        /\ result.slippage_bps = (IF walker = "test"
                                  THEN Round2(AbsDeviationBps)
                                  ELSE AbsDeviationBps)


\* ------------------------------------------------------------------------
\* Properties of the venues without a book
\* ------------------------------------------------------------------------

EstimatedVenues == {"Ostium", "Avantis"}

\* the spread the configuration assumes for a venue without a book
AssumedSpread(dex) ==
    IF dex = "Ostium" THEN OstiumData(Category(asset)).spread_bps
    ELSE AvantisSpread(AvantisSymbol(asset) \in AVANTIS_ZERO_SLIPPAGE)

\* C19: of a venue without a live book the slippage part of every result is
\* the assumed spread of the configuration, whatever the size and whatever
\* the books of the other venues, and the result carries estimated = TRUE.
\* In orderbook.py the slippage per dollar of the Ostium and Avantis rows is
\* the same for every size.
C19_Estimated ==
    /\ prog \in {"test", "analytic"} =>
           \A i \in 1..Len(results) :
               \A j \in 1..Len(results[i].entries) :
                   LET e == results[i].entries[j]
                   IN  e.dex \in EstimatedVenues =>
                           /\ RSub(TotalBps(e), FeeColumn(prog, e.dex))
                                  = AssumedSpread(e.dex)
                           /\ "estimated" \in DOMAIN e
                           /\ e.estimated
    /\ prog = "orderbook" =>
           \A dex \in EstimatedVenues : \A i, j \in 1..Len(order_sizes) :
               (/\ HasRow(results, dex, "buy", order_sizes[i])
                /\ HasRow(results, dex, "buy", order_sizes[j])) =>
                   RDiv(OBSlippageDollars(hl_book, order_sizes[i]),
                        order_sizes[i])
                       = RDiv(OBSlippageDollars(hl_book, order_sizes[j]),
                              order_sizes[j])


\* the side the walk consumes, as it stands in the snapshot
WalkedSide == IF side = "buy" THEN orderbook.asks ELSE orderbook.bids

\* the walked side is empty or holds entries of quantity zero only
NothingToFill ==
    \A i \in 1..Len(WalkedSide) : WalkedSide[i].qty = R(0)

\* the finished walk reports "not filled"
ReportsUnfilled ==
    IF walker = "orderbook"
    THEN "insufficient" \in DOMAIN result /\ result.insufficient
    ELSE "filled" \in DOMAIN result /\ ~result.filled

\* the fill percentage the finished walk reports (orderbook.py reports none;
\* its filled amount stands in)
ReportedPct ==
    IF walker = "test" THEN result.filled_percent
    ELSE IF walker = "lighter" THEN LighterPct(result, size_usd)
    ELSE total_cost

\* the number of levels the finished walk reports (the loop counter where
\* the result has no such field)
ReportedLevels ==
    IF walker = "lighter" THEN result.levels_used ELSE levels_used

\* C20: a walk for a positive notional against an empty side, or a side whose
\* entries all have quantity zero, returns a result that is not filled, with
\* fill percentage 0 and 0 levels used, and raises no error, for buy and for
\* sell.
C20_NothingToFill ==
    (/\ pc = "done"
     /\ walker \in {"test", "lighter", "orderbook"}
     /\ NothingToFill) =>
        /\ ~IsNone(result)
        /\ "error" \notin DOMAIN result
        /\ ReportsUnfilled
        /\ ReportedPct = R(0)
        /\ ReportedLevels = 0


\* ------------------------------------------------------------------------
\* Properties of the summary and of the run as a whole
\* ------------------------------------------------------------------------

\* index of an entry no other entry is cheaper than
CheapestIndex(entries) ==
    CHOOSE j \in 1..Len(entries) :
        \A m \in 1..Len(entries) : RLe(TotalBps(entries[j]), TotalBps(entries[m]))

\* the entries without the one at index j
Except(entries, j) ==
    SubSeq(entries, 1, j - 1) \o SubSeq(entries, j + 1, Len(entries))

\* the total of an entry no other entry is cheaper than
LeastTotal(entries) == TotalBps(entries[CheapestIndex(entries)])

CpcRank(c) ==
    IF c = "fetch_hl" THEN 1
    ELSE IF c = "fetch_lt" THEN 2
    ELSE IF c = "fetch_os" THEN 3
    ELSE IF c = "fetch_av" THEN 4
    ELSE IF c = "sizes" THEN 5
    ELSE 6

\* a step assigns a venue's book only at that venue's fetch, which is left
\* by the same step and never entered again; results are added only after
\* all fetches
C22Rule ==
    /\ CpcRank(cpc') >= CpcRank(cpc)
    /\ hl_book' # hl_book => (cpc = "fetch_hl" /\ cpc' = "fetch_lt")
    /\ lt_book' # lt_book => (cpc = "fetch_lt" /\ cpc' = "fetch_os")
    /\ results' # results => (cpc = "sizes" /\ cpc' = "sizes")

\* every size evaluated so far was evaluated against the fetched books, and
\* a venue whose fetch returned nothing has no entry for any size
C22Snapshot ==
    \A i \in 1..Len(results) :
        /\ results[i].entries
               = EntriesOf(prog, hl_book, lt_book, results[i].size)
        /\ \A dex \in BookVenues :
               IsNone(BookOf(dex)) => ~HasDex(results[i].entries, dex)

\* C22: in one run of compare_asset each venue's book is fetched at most
\* once and before any size is evaluated; a fetch that returned nothing
\* leaves the venue without an entry for every size and is not repeated, and
\* every size is evaluated against the same fetched snapshot, however the
\* venues' books move meanwhile.
C22_FetchOnce == [][C22Rule]_vars /\ []C22Snapshot

\* a finished run of two sizes: Hyperliquid's fetch failed and its book came
\* back later, Lighter's book moved after the fetch and has an entry for both
\* sizes
C22_Witness ==
    /\ cpc = "done"
    /\ Len(results) = 2
    /\ IsNone(hl_book) /\ ~IsNone(feed_hl)
    /\ ~IsNone(lt_book)
    /\ lt_book # GetOrderbook(prog, "Lighter", feed_lt)
    /\ HasDex(results[1].entries, "Lighter")
    /\ HasDex(results[2].entries, "Lighter")


\* ------------------------------------------------------------------------
\* Properties of the walkers' loops
\* ------------------------------------------------------------------------

\* the finished walk reports the request as filled
ReportsFilled ==
    IF walker \in {"test", "lighter"} THEN ~IsNone(result) /\ result.filled
    ELSE IF walker = "orderbook"
         THEN "insufficient" \in DOMAIN result /\ ~result.insufficient
    ELSE ~IsNone(result)

\* C23: the walk for a positive notional ends when the remaining amount is at
\* or below 1e-4 or the levels are exhausted, and it reports the request as
\* filled exactly when the remaining amount is at most 1e-4, in every walker.
C23_Threshold ==
    (Done /\ RLt(R(0), size_usd)) =>
        /\ RLe(remaining, Tol) \/ idx > Len(levels)
        /\ ReportsFilled <=> RLe(remaining, Tol)


\* what the first i levels the loop visits can serve, in the unit the
\* walker consumes: coins in the sell walk of test.py, USD otherwise
Capacity(i) ==
    IF walker = "test" /\ side = "sell" THEN SideQty(SubSeq(levels, 1, i))
    ELSE SideValue(SubSeq(levels, 1, i))

\* the request in the same unit
Need ==
    IF walker = "test" /\ side = "sell"
    THEN RDiv(size_usd, TestMid(orderbook))
    ELSE size_usd

\* the level at position i of the loop received a fill
ReceivedFill(i) ==
    /\ RLt(R(0), levels[i].qty)
    /\ RLt(Capacity(i - 1), Need)

\* level a has a strictly better price than level b for the walked side
Better(a, b) ==
    IF side = "buy" THEN RLt(a.price, b.price) ELSE RLt(b.price, a.price)

\* C24: whatever the order of the levels in the snapshot, a level receives a
\* fill only after every level with a strictly better price and a positive
\* quantity, so the loop meets that level earlier.
C24_BestFirst ==
    (pc = "done" /\ walker \in {"test", "lighter", "exec"}) =>
        \A i, j \in 1..Len(levels) :
            (/\ ReceivedFill(i)
             /\ RLt(R(0), levels[j].qty)
             /\ Better(levels[j], levels[i])) => j < i


\* USD the level at position i takes of a buy of size_usd: its value, or what
\* the levels before it left of the request
FillAt(i) ==
    LET value == RMul(levels[i].price, levels[i].qty)
        left  == RSub(size_usd, Capacity(i - 1))
    IN  IF RLe(left, R(0)) THEN R(0) ELSE RMin(value, left)

\* sum over the first n levels of the USD taken at the level / its price
RECURSIVE ConsumedQty(_)
ConsumedQty(n) ==
    IF n = 0 THEN R(0)
    ELSE RAdd(ConsumedQty(n - 1), RDiv(FillAt(n), levels[n].price))

\* a buy walk of test.py, lighter_debug.py or orderbook.py is in its loop or
\* has left it
InBuyWalk ==
    /\ walker \in {"test", "lighter", "orderbook"}
    /\ side = "buy"
    /\ pc \in {"loop", "done"}

\* C25: after every step of the buy loop total_cost + remaining is the
\* requested notional, remaining lies between 0 and the notional, and
\* total_qty is the sum over the consumed levels of cost at the level /
\* price of the level; so the filled notional exceeds neither the request
\* nor the value of the book.
C25_Conservation ==
    InBuyWalk =>
        /\ RAdd(total_cost, remaining) = size_usd
        /\ RLe(R(0), remaining) /\ RLe(remaining, size_usd)
        /\ total_qty = ConsumedQty(idx - 1)
        /\ RLe(total_cost, size_usd)
        /\ RLe(total_cost, SideValue(levels))

\* the loop has taken one level whole and part of the next
C25_Witness ==
    /\ InBuyWalk
    /\ walker = "lighter"
    /\ idx = 3
    /\ remaining = R(0)
    /\ RLt(RMul(levels[1].price, levels[1].qty), total_cost)
    /\ RLt(total_cost, SideValue(levels))


\* the finished walk carries an average price
HasAverage ==
    /\ ~IsNone(result)
    /\ \/ "avg_price" \in DOMAIN result
       \/ "avg_exec_price" \in DOMAIN result

\* C26: no walk divides by zero, whatever the requested size (0 and sizes no
\* level can serve included): no ZeroDivisionError is raised, an average
\* price is computed from a filled quantity > 0 only (lighter_debug.py
\* reports 0 otherwise), and the mid price used as divisor is > 0.
C26_NoDivisionByZero ==
    Done =>
        /\ ~IsNone(result) =>
               ("error" \in DOMAIN result => result.error # "ZeroDivisionError")
        /\ (HasAverage /\ walker # "lighter") => RLt(R(0), total_qty)
        /\ (HasAverage /\ walker = "lighter" /\ total_qty = R(0))
               => result.avg_price = R(0)
        /\ RLt(R(0), MidOf(walker, orderbook))


\* total cost, total quantity and remaining USD of a walk's accumulators
Totals(st) == <<st.total_cost, st.total_qty, st.remaining>>

\* the buy loop of calculate_execution_cost and of orderbook.py (min() of what
\* the remaining USD buy and the level's size) on the levels the walk was
\* given
MinWalkExec == ExecWalk(ExecStart(size_usd), levels)

MinWalkOB ==
    OBWalk(OBStart(size_usd, "buy", OBMid(orderbook)), levels, "buy")

\* the buy loop of test.py (if / else on the level's value) on the same
\* levels
GreedyWalkTest ==
    TestWalk(TestStart(orderbook, size_usd, "buy"), levels, "buy", size_usd,
             TestMid(orderbook))

\* C27: on the same levels in the same order and for the same positive
\* notional the if / else walks (lighter_debug.py, test.py) and the min()
\* walks (analytic script, orderbook.py) end with the same total cost, total
\* quantity and remaining USD.
C27_SameWalk ==
    (Done /\ side = "buy" /\ RLt(R(0), size_usd)) =>
        /\ walker \in {"lighter", "test"} =>
               /\ Totals(Acc) = Totals(MinWalkExec)
               /\ Totals(Acc) = Totals(MinWalkOB)
        /\ walker \in {"exec", "orderbook"} =>
               Totals(Acc) = Totals(GreedyWalkTest)

\* an if / else walk has ended on a level it took in part after one it took
\* whole, and one that ran out of levels
C27_Witness ==
    /\ Done /\ side = "buy" /\ walker = "lighter"
    /\ levels_used = 2
    /\ remaining = R(0)
    /\ RLt(total_cost, SideValue(levels))
    /\ Totals(Acc) = Totals(MinWalkExec)


\* ------------------------------------------------------------------------
\* Properties of the walkers under a change of the snapshot's order
\* ------------------------------------------------------------------------

\* the sequences that hold the entries of s in another order
Reorderings(s) ==
    LET n == Len(s)
    IN  {[i \in 1..n |-> s[q[i]]] :
            q \in {f \in [1..n -> 1..n] :
                      \A i, j \in 1..n : f[i] = f[j] => i = j}}

\* C28: what calculate_slippage returns (filled, fill percentage, average
\* price, slippage, levels used) is the same for every order of the bids and
\* of the asks of the snapshot, in test.py and for the levels handed over by
\* analyze_execution of lighter_debug.py.
C28_OrderIndependent ==
    /\ (Done /\ walker = "test"
        /\ orderbook.bids # <<>> /\ orderbook.asks # <<>>) =>
           \A pb \in Reorderings(orderbook.bids) :
               \A pa \in Reorderings(orderbook.asks) :
                   calculate_slippage([bids |-> pb, asks |-> pa],
                                      size_usd, side) = result
    /\ (Done /\ walker = "lighter") =>
           \A pl \in Reorderings(LighterLevels(orderbook, side)) :
               LighterCalculateSlippage(pl, size_usd) = result

\* ------------------------------------------------------------------------
\* Properties of what compare_asset returns
\* ------------------------------------------------------------------------

\* the place of a venue in the blocks of compare_asset's loop
VenueOrder(dex) ==
    IF dex = "Hyperliquid" THEN 1
    ELSE IF dex = "Lighter" THEN 2
    ELSE IF dex = "Ostium" THEN 3
    ELSE IF dex = "Avantis" THEN 4
    ELSE 0

\* the entry has a total cost and a fee in USD
CarriesCostFields(e) ==
    \/ {"total_bps", "fee_usd"} \subseteq DOMAIN e
    \/ {"total_cost_bps", "fee_dollars"} \subseteq DOMAIN e

\* the venues of the set follow the fixed order, none of them twice
InVenueOrder(entries) ==
    /\ \A j \in 1..Len(entries) : VenueOrder(entries[j].dex) >= 1
    /\ \A i, j \in 1..Len(entries) :
           i < j => VenueOrder(entries[i].dex) < VenueOrder(entries[j].dex)

\* C29: compare_asset of test.py and of the analytic script returns one
\* result set per requested size; in every set, finished or still being
\* collected, each venue appears at most once and in the order Hyperliquid,
\* Lighter, Ostium, Avantis, every entry carries a total cost and a fee in
\* USD, and the fixed-fee venue Avantis is there, so no set is empty.
C29_ResultSets ==
    prog \in {"test", "analytic"} =>
        /\ Len(results) <= Len(order_sizes)
        /\ cpc = "done" => Len(results) = Len(order_sizes)
        /\ \A i \in 1..Len(results) :
               /\ results[i].size = order_sizes[i]
               /\ InVenueOrder(results[i].entries)
               /\ \A j \in 1..Len(results[i].entries) :
                      CarriesCostFields(results[i].entries[j])
               /\ HasDex(results[i].entries, "Avantis")
               /\ results[i].entries # <<>>

\* a run over two sizes has returned two result sets with all four venues,
\* Hyperliquid first and Avantis last
C29_Witness ==
    /\ prog \in {"test", "analytic"} /\ cpc = "done"
    /\ Len(order_sizes) = 2 /\ Len(results) = 2
    /\ \A i \in 1..2 :
           /\ Len(results[i].entries) = 4
           /\ results[i].entries[1].dex = "Hyperliquid"
           /\ results[i].entries[4].dex = "Avantis"

\* ------------------------------------------------------------------------
\* Properties of the snapshot across the calls of the walkers
\* ------------------------------------------------------------------------

\* the walker has returned from its second call on the same snapshot
ReturnedTwice == Done /\ call = "second"

\* C30: no step of a walker (entry, loop iteration, return with a fill, a
\* partial fill or None) and no step of its caller changes the snapshot it
\* was given: bids and asks keep their levels, their order, their prices and
\* their quantities, so the next call walks the same snapshot.
C30_BookUnchanged == [][orderbook' = orderbook]_vars

\* calculate_slippage of test.py has returned a partial fill for the second
\* time on a snapshot whose asks are not in ascending order
C30_Witness ==
    /\ ReturnedTwice /\ walker = "test" /\ side = "buy"
    /\ ~IsNone(result) /\ "error" \notin DOMAIN result
    /\ ~result.filled
    /\ orderbook.asks # TestLevels(orderbook, "buy")
    /\ prev = result

====
